---- MODULE Spec2Model ----
(***************************************************************************)
(* ConfigComponent (src/src/ConfigComponent.jsx): the configuration form   *)
(* of the chat client.  The model covers the component's state (config,    *)
(* errors), its two effects (load of the stored configuration, derivation  *)
(* of the Strands region from the Lambda ARN), its event handlers (field   *)
(* change, agent-type select, submit, cancel) and the three collaborators  *)
(* it acts on: localStorage['appConfig'], Amplify.configure and the        *)
(* owner's callbacks onConfigSet / setEditingConfig.                       *)
(***************************************************************************)
EXTENDS Naturals, Sequences, FiniteSets

VARIABLES
    mounted,          \* the component instance exists
    isEditingConfig,  \* the owner's edit-mode flag, passed as a prop
    config,           \* useState: the in-memory configuration
    errors,           \* useState: error key -> message
    storage,          \* localStorage['appConfig']: NoItem or the stored JSON text
    amplify,          \* <<argument of the last Amplify.configure>>, or NotConfigured
    calls,            \* history: the calls the last step made on the collaborators
    submitted,        \* history: <<configuration of the last successful submit>>
    editsLeft         \* input events still to be explored in this run

vars == <<mounted, isEditingConfig, config, errors, storage, amplify,
          calls, submitted, editsLeft>>

\* Input events (field changes and agent-type selections) explored in a run
\* that starts from any stored item, and in a run of first-time setup (the
\* shortest setup that can be saved takes six).
MaxEdits == 3
MaxSetupEdits == 6

----------------------------------------------------------------------------
(* Strings.  A JavaScript string is named by a TLA+ string; Chars gives its *)
(* characters, on which trim() and the ARN pattern are computed.            *)

ArnWest == "arn:aws:lambda:us-west-2:123456789012:function:foo"
ArnEast == "arn:aws:lambda:us-east-1:1:function:f"
ArnUpper == "arn:aws:lambda:US-WEST-2:1:function:f"

Chars(s) ==
    CASE s = "" -> <<>>
      [] s = "  " -> <<" ", " ">>
      [] s = "not-an-arn" ->
            <<"n","o","t","-","a","n","-","a","r","n">>
      [] s = ArnWest ->
            <<"a","r","n",":","a","w","s",":","l","a","m","b","d","a",":",
              "u","s","-","w","e","s","t","-","2",":",
              "1","2","3","4","5","6","7","8","9","0","1","2",":",
              "f","u","n","c","t","i","o","n",":","f","o","o">>
      [] s = ArnEast ->
            <<"a","r","n",":","a","w","s",":","l","a","m","b","d","a",":",
              "u","s","-","e","a","s","t","-","1",":","1",":",
              "f","u","n","c","t","i","o","n",":","f">>
      [] s = ArnUpper ->
            <<"a","r","n",":","a","w","s",":","l","a","m","b","d","a",":",
              "U","S","-","W","E","S","T","-","2",":","1",":",
              "f","u","n","c","t","i","o","n",":","f">>
      [] s = "us-west-2" -> <<"u","s","-","w","e","s","t","-","2">>
      [] s = "us-east-1" -> <<"u","s","-","e","a","s","t","-","1">>
      [] s = "eu-west-1" -> <<"e","u","-","w","e","s","t","-","1">>
      [] s = "pool" -> <<"p","o","o","l">>
      [] s = "client" -> <<"c","l","i","e","n","t">>
      [] s = "idpool" -> <<"i","d","p","o","o","l">>
      [] s = "MyAgent" -> <<"M","y","A","g","e","n","t">>
      [] s = "UF1W5WKVYI" -> <<"U","F","1","W","5","W","K","V","Y","I">>
      [] s = "TSTALIASID" -> <<"T","S","T","A","L","I","A","S","I","D">>
      [] s = "Weather" -> <<"W","e","a","t","h","e","r">>
      [] s = "Strandsエージェント" ->
            <<"S","t","r","a","n","d","s","エ","ー","ジ","ェ","ン","ト">>

KnownStrings ==
    {"", "  ", "not-an-arn", ArnWest, ArnEast, ArnUpper, "us-west-2",
     "us-east-1", "eu-west-1", "pool", "client", "idpool", "MyAgent",
     "UF1W5WKVYI", "TSTALIASID", "Weather", "Strandsエージェント"}

\* The string with the given characters.
Str(cs) == CHOOSE s \in KnownStrings : Chars(s) = cs

WhiteSpace == {" ", "\t", "\n", "\r"}
LineTerminator == {"\n", "\r"}
LowerCase == {"a","b","c","d","e","f","g","h","i","j","k","l","m",
              "n","o","p","q","r","s","t","u","v","w","x","y","z"}
Digit == {"0","1","2","3","4","5","6","7","8","9"}

\* Length of the longest prefix of cs, from position i on, drawn from class.
RECURSIVE RunLength(_, _, _)
RunLength(cs, i, class) ==
    IF i <= Len(cs) /\ cs[i] \in class
    THEN 1 + RunLength(cs, i + 1, class)
    ELSE 0

HasPrefixAt(cs, i, lit) ==
    /\ i + Len(lit) - 1 <= Len(cs)
    /\ \A k \in 1..Len(lit) : cs[i + k - 1] = lit[k]

\* String.prototype.trim on characters.
RECURSIVE TrimStart(_)
TrimStart(cs) ==
    IF cs # <<>> /\ Head(cs) \in WhiteSpace THEN TrimStart(Tail(cs)) ELSE cs

RECURSIVE TrimEnd(_)
TrimEnd(cs) ==
    IF cs # <<>> /\ cs[Len(cs)] \in WhiteSpace
    THEN TrimEnd(SubSeq(cs, 1, Len(cs) - 1))
    ELSE cs

Trim(cs) == TrimEnd(TrimStart(cs))

\* !s.trim()
Blank(s) == Trim(Chars(s)) = <<>>

\* arn.match(/^arn:aws:lambda:([a-z0-9-]+):\d+:function:.+$/): the captured
\* group as characters, or <<>> when there is no match.  Neither character
\* class contains ':', so each run is the maximal one.
ArnMatch(cs) ==
    LET p1 == <<"a","r","n",":","a","w","s",":","l","a","m","b","d","a",":">>
        p2 == <<":","f","u","n","c","t","i","o","n",":">>
        r0 == Len(p1) + 1
        rn == RunLength(cs, r0, LowerCase \cup Digit \cup {"-"})
        a0 == r0 + rn + 1
        an == RunLength(cs, a0, Digit)
        f0 == a0 + an
        n0 == f0 + Len(p2)
    IN  IF /\ HasPrefixAt(cs, 1, p1)
           /\ rn >= 1
           /\ HasPrefixAt(cs, r0 + rn, <<":">>)
           /\ an >= 1
           /\ HasPrefixAt(cs, f0, p2)
           /\ n0 <= Len(cs)
           /\ \A k \in n0..Len(cs) : cs[k] \notin LineTerminator
        THEN SubSeq(cs, r0, r0 + rn - 1)
        ELSE <<>>

extractRegionFromLambdaArn(arn) ==
    LET m == ArnMatch(Chars(arn))
    IN  IF m # <<>> THEN Str(m) ELSE ""

----------------------------------------------------------------------------
(* The configuration record and its JSON text.                              *)

Sections == <<"cognito", "bedrock", "strands">>

Fields(section) ==
    CASE section = "cognito" ->
            <<"userPoolId", "userPoolClientId", "region", "identityPoolId">>
      [] section = "bedrock" ->
            <<"agentName", "agentId", "agentAliasId", "region">>
      [] section = "strands" ->
            <<"enabled", "lambdaArn", "agentName", "region">>

DefaultStrands ==
    [enabled |-> FALSE, lambdaArn |-> "", agentName |-> "Strandsエージェント",
     region |-> ""]

\* useState initial value.
DefaultConfig ==
    [cognito |-> [userPoolId |-> "", userPoolClientId |-> "", region |-> "",
                  identityPoolId |-> ""],
     bedrock |-> [agentName |-> "", agentId |-> "", agentAliasId |-> "",
                  region |-> ""],
     strands |-> DefaultStrands]

NoErrors == [k \in {} |-> ""]

NoItem == <<>>              \* localStorage.getItem of a key never set: no text
NotConfigured == <<>>       \* Amplify.configure not called yet
NoSubmit == <<>>

Range(seq) == {seq[i] : i \in 1..Len(seq)}

RECURSIVE Concat(_)
Concat(seqs) == IF seqs = <<>> THEN <<>> ELSE Head(seqs) \o Concat(Tail(seqs))

\* Variant: only the sections the first version of the form had are written.
JSONstringify_withoutStrands(obj) ==
    LET present == <<"cognito", "bedrock">>
        members(s) ==
            LET fs == SelectSeq(Fields(s), LAMBDA f : f \in DOMAIN obj[s])
            IN  [i \in 1..Len(fs) |-> <<s, fs[i], obj[s][fs[i]]>>]
    IN  Concat([i \in 1..Len(present) |-> members(present[i])])

\* JSON.stringify of an object of objects: its members in key order, each a
\* <<section, field, value>> entry of the text.
JSONstringify(obj) ==
    LET present == SelectSeq(Sections, LAMBDA s : s \in DOMAIN obj)
        members(s) ==
            LET fs == SelectSeq(Fields(s), LAMBDA f : f \in DOMAIN obj[s])
            IN  [i \in 1..Len(fs) |-> <<s, fs[i], obj[s][fs[i]]>>]
    IN  Concat([i \in 1..Len(present) |-> members(present[i])])

\* JSON.parse: the object the text denotes (a later duplicate key wins).
JSONparse(text) ==
    LET secs == {text[i][1] : i \in 1..Len(text)}
        flds(s) == {text[i][2] : i \in {j \in 1..Len(text) : text[j][1] = s}}
        last(s, f) ==
            CHOOSE i \in 1..Len(text) :
                /\ text[i][1] = s /\ text[i][2] = f
                /\ \A j \in 1..Len(text) :
                      (text[j][1] = s /\ text[j][2] = f) => j <= i
    IN  [s \in secs |-> [f \in flds(s) |-> text[last(s, f)][3]]]

\* A configuration saved before the strands section existed.
LegacyStored ==
    <<  <<"cognito", "userPoolId", "pool">>,
        <<"cognito", "userPoolClientId", "client">>,
        <<"cognito", "region", "us-east-1">>,
        <<"cognito", "identityPoolId", "idpool">>,
        <<"bedrock", "agentName", "MyAgent">>,
        <<"bedrock", "agentId", "UF1W5WKVYI">>,
        <<"bedrock", "agentAliasId", "TSTALIASID">>,
        <<"bedrock", "region", "us-east-1">>  >>

----------------------------------------------------------------------------
(* Pure parts of the component.                                             *)

\* The Auth.Cognito argument configureAmplify builds.
CognitoArg(cfg) ==
    [region |-> cfg.cognito.region,
     userPoolId |-> cfg.cognito.userPoolId,
     userPoolClientId |-> cfg.cognito.userPoolClientId,
     identityPoolId |-> cfg.cognito.identityPoolId]

Required == "required"      \* the per-field message text

\* Variant: the optional agent name is required too.
newErrors_agentNameRequired(cfg) ==
    LET failing ==
            {k \in {"userPoolId"} : Blank(cfg.cognito.userPoolId)}
            \cup {k \in {"userPoolClientId"} : Blank(cfg.cognito.userPoolClientId)}
            \cup {k \in {"identityPoolId"} : Blank(cfg.cognito.identityPoolId)}
            \cup {k \in {"cognitoRegion"} : Blank(cfg.cognito.region)}
            \cup (IF ~cfg.strands.enabled
                  THEN {k \in {"agentName"} : Blank(cfg.bedrock.agentName)}
                       \cup {k \in {"agentId"} : Blank(cfg.bedrock.agentId)}
                       \cup {k \in {"agentAliasId"} : Blank(cfg.bedrock.agentAliasId)}
                       \cup {k \in {"bedrockRegion"} : Blank(cfg.bedrock.region)}
                  ELSE {})
            \cup (IF cfg.strands.enabled
                  THEN {k \in {"lambdaArn"} : Blank(cfg.strands.lambdaArn)}
                       \cup {k \in {"strandsRegion"} : Blank(cfg.strands.region)}
                  ELSE {})
    IN  [k \in failing |-> Required]

\* Variant: the Bedrock fields are validated whatever the agent type.
newErrors_bedrockAlways(cfg) ==
    LET failing ==
            {k \in {"userPoolId"} : Blank(cfg.cognito.userPoolId)}
            \cup {k \in {"userPoolClientId"} : Blank(cfg.cognito.userPoolClientId)}
            \cup {k \in {"identityPoolId"} : Blank(cfg.cognito.identityPoolId)}
            \cup {k \in {"cognitoRegion"} : Blank(cfg.cognito.region)}
            \cup {k \in {"agentId"} : Blank(cfg.bedrock.agentId)}
            \cup {k \in {"agentAliasId"} : Blank(cfg.bedrock.agentAliasId)}
            \cup {k \in {"bedrockRegion"} : Blank(cfg.bedrock.region)}
            \cup (IF cfg.strands.enabled
                  THEN {k \in {"lambdaArn"} : Blank(cfg.strands.lambdaArn)}
                       \cup {k \in {"strandsRegion"} : Blank(cfg.strands.region)}
                  ELSE {})
    IN  [k \in failing |-> Required]

\* validateForm: the newErrors object.
newErrors(cfg) ==
    LET failing ==
            {k \in {"userPoolId"} : Blank(cfg.cognito.userPoolId)}
            \cup {k \in {"userPoolClientId"} : Blank(cfg.cognito.userPoolClientId)}
            \cup {k \in {"identityPoolId"} : Blank(cfg.cognito.identityPoolId)}
            \cup {k \in {"cognitoRegion"} : Blank(cfg.cognito.region)}
            \cup (IF ~cfg.strands.enabled
                  THEN {k \in {"agentId"} : Blank(cfg.bedrock.agentId)}
                       \cup {k \in {"agentAliasId"} : Blank(cfg.bedrock.agentAliasId)}
                       \cup {k \in {"bedrockRegion"} : Blank(cfg.bedrock.region)}
                  ELSE {})
            \cup (IF cfg.strands.enabled
                  THEN {k \in {"lambdaArn"} : Blank(cfg.strands.lambdaArn)}
                       \cup {k \in {"strandsRegion"} : Blank(cfg.strands.region)}
                  ELSE {})
    IN  [k \in failing |-> Required]

\* validateForm's return value.
validateForm(cfg) == DOMAIN newErrors(cfg) = {}

\* handleInputChange's updater.
handleInputChange(prevConfig, section, field, value) ==
    [prevConfig EXCEPT ![section] = [@ EXCEPT ![field] = value]]

\* Variant: the extracted region is written without the test that it is
\* non-empty.
DeriveRegionEffect_unconditional(cfg) ==
    IF cfg.strands.enabled /\ cfg.strands.lambdaArn # ""
    THEN handleInputChange(cfg, "strands", "region",
                           extractRegionFromLambdaArn(cfg.strands.lambdaArn))
    ELSE cfg

\* The body of the effect on [lambdaArn, enabled].
DeriveRegionEffect(cfg) ==
    IF cfg.strands.enabled /\ cfg.strands.lambdaArn # ""
    THEN LET region == extractRegionFromLambdaArn(cfg.strands.lambdaArn)
         IN  IF region # ""
             THEN handleInputChange(cfg, "strands", "region", region)
             ELSE cfg
    ELSE cfg

\* The dependency list of that effect.
DeriveDeps(cfg) == <<cfg.strands.lambdaArn, cfg.strands.enabled>>

\* Variant: the effect depends on the enabled flag alone.
AfterRender_enabledOnly(prev, next) ==
    IF next.strands.enabled # prev.strands.enabled
    THEN DeriveRegionEffect(next)
    ELSE next

\* The state after the render that follows a state change: the effect runs
\* when its dependencies differ from those of the previous render.
AfterRender(prev, next) ==
    IF DeriveDeps(next) # DeriveDeps(prev) THEN DeriveRegionEffect(next) ELSE next

\* disabled={!!extractRegionFromLambdaArn(config.strands.lambdaArn)}
RegionInputDisabled(cfg) == extractRegionFromLambdaArn(cfg.strands.lambdaArn) # ""

\* Variant: the back-filled section selects the Strands agent.
ParsedConfig_backfillEnabled(text) ==
    LET parsed == JSONparse(text)
    IN  IF "strands" \notin DOMAIN parsed
        THEN [s \in DOMAIN parsed \cup {"strands"} |->
                 IF s = "strands"
                 THEN [DefaultStrands EXCEPT !.enabled = TRUE]
                 ELSE parsed[s]]
        ELSE parsed

\* The parsedConfig of the load effect, after the strands back-fill.
ParsedConfig(text) ==
    LET parsed == JSONparse(text)
    IN  IF "strands" \notin DOMAIN parsed
        THEN [s \in DOMAIN parsed \cup {"strands"} |->
                 IF s = "strands" THEN DefaultStrands ELSE parsed[s]]
        ELSE parsed

\* The errors key each input's onChange clears.
ErrorKey(section, field) ==
    CASE section = "cognito" /\ field = "region" -> "cognitoRegion"
      [] section = "bedrock" /\ field = "region" -> "bedrockRegion"
      [] section = "strands" /\ field = "region" -> "strandsRegion"
      [] section = "strands" /\ field = "agentName" -> "strandsAgentName"
      [] OTHER -> field

\* The inputs the form renders, and whether each accepts typing.
InputEnabled(cfg, section, field) ==
    CASE section = "cognito" -> TRUE
      [] section = "bedrock" -> ~cfg.strands.enabled
      [] section = "strands" ->
            /\ cfg.strands.enabled
            /\ field = "region" => ~RegionInputDisabled(cfg)

\* Values typed into each input in the sessions explored.
Typed(section, field) ==
    CASE section = "cognito" /\ field = "userPoolId" -> {"pool"}
      [] section = "cognito" /\ field = "userPoolClientId" -> {"client"}
      [] section = "cognito" /\ field = "identityPoolId" -> {"idpool"}
      [] section = "cognito" /\ field = "region" -> {"  ", "us-east-1"}
      [] section = "bedrock" /\ field = "agentName" -> {"MyAgent"}
      [] section = "bedrock" /\ field = "agentId" -> {"", "UF1W5WKVYI"}
      [] section = "bedrock" /\ field = "agentAliasId" -> {"TSTALIASID"}
      [] section = "bedrock" /\ field = "region" -> {"us-east-1"}
      [] section = "strands" /\ field = "lambdaArn" ->
            {"", "not-an-arn", ArnWest, ArnEast}
      [] section = "strands" /\ field = "agentName" -> {"Weather"}
      [] section = "strands" /\ field = "region" -> {"eu-west-1"}

TextInputs ==
    {<<"cognito", f>> : f \in Range(Fields("cognito"))}
    \cup {<<"bedrock", f>> : f \in Range(Fields("bedrock"))}
    \cup {<<"strands", f>> : f \in {"lambdaArn", "agentName", "region"}}

----------------------------------------------------------------------------
(* The state machine.                                                       *)

StoredAtStart == {NoItem, LegacyStored}

InitWith(stored, budget) ==
    /\ mounted = FALSE
    /\ isEditingConfig = FALSE
    /\ config = DefaultConfig
    /\ errors = NoErrors
    /\ storage = stored
    /\ amplify = NotConfigured
    /\ calls = <<>>
    /\ submitted = NoSubmit
    /\ editsLeft = budget

Init == \E stored \in StoredAtStart : InitWith(stored, MaxEdits)

\* The load effect, run with the component state cfg: the state it leaves.
LoadEffect(cfg, editing) ==
    IF storage # NoItem
    THEN LET parsedConfig == ParsedConfig(storage)
         IN  IF ~editing
             THEN [config |-> cfg, amplify |-> <<CognitoArg(parsedConfig)>>,
                   calls |-> <<"Amplify.configure">>]
             ELSE [config |-> parsedConfig, amplify |-> amplify,
                   calls |-> <<>>]
    ELSE [config |-> cfg, amplify |-> amplify, calls |-> <<>>]

\* The owner renders the component for the first time: initial state, then
\* both effects.
Mount(editing) ==
    /\ ~mounted
    /\ mounted' = TRUE
    /\ isEditingConfig' = editing
    /\ LET loaded == LoadEffect(DefaultConfig, editing)
       IN  /\ config' = AfterRender(DefaultConfig, loaded.config)
           /\ amplify' = loaded.amplify
           /\ calls' = loaded.calls
    /\ errors' = NoErrors
    /\ UNCHANGED <<storage, submitted, editsLeft>>

\* The owner renders the mounted component again with changed props
\* (isEditingConfig or onConfigSet): the load effect runs again.
Rerender(editing) ==
    /\ mounted
    /\ isEditingConfig' = editing
    /\ LET loaded == LoadEffect(config, editing)
       IN  /\ config' = AfterRender(config, loaded.config)
           /\ amplify' = loaded.amplify
           /\ calls' = loaded.calls
    /\ UNCHANGED <<mounted, errors, storage, submitted, editsLeft>>

Unmount ==
    /\ mounted
    /\ mounted' = FALSE
    /\ config' = DefaultConfig
    /\ errors' = NoErrors
    /\ calls' = <<>>
    /\ UNCHANGED <<isEditingConfig, storage, amplify, submitted, editsLeft>>

\* An Input's onChange: handleInputChange, then setErrors({...errors, key: ''}).
InputChange(section, field, value) ==
    /\ mounted
    /\ editsLeft > 0
    /\ InputEnabled(config, section, field)
    /\ value # config[section][field]
    /\ config' = AfterRender(config, handleInputChange(config, section, field, value))
    /\ errors' = [k \in DOMAIN errors \cup {ErrorKey(section, field)} |->
                    IF k = ErrorKey(section, field) THEN "" ELSE errors[k]]
    /\ calls' = <<>>
    /\ editsLeft' = editsLeft - 1
    /\ UNCHANGED <<mounted, isEditingConfig, storage, amplify, submitted>>

\* The agent-type Select's onChange.
SelectAgentType(option) ==
    /\ mounted
    /\ editsLeft > 0
    /\ config' = AfterRender(config,
                    [config EXCEPT !.strands.enabled = (option = "strands")])
    /\ calls' = <<>>
    /\ editsLeft' = editsLeft - 1
    /\ UNCHANGED <<mounted, isEditingConfig, errors, storage, amplify, submitted>>

\* The calls of a submit that validates, in order.
SubmitCalls ==
    <<"localStorage.setItem", "Amplify.configure", "setEditingConfig(false)",
      "onConfigSet">>

\* Variant: the configuration is saved and applied whatever validateForm
\* returns.
handleSubmit_unvalidated ==
    /\ mounted
    /\ errors' = newErrors(config)
    /\ storage' = JSONstringify(config)
    /\ amplify' = <<CognitoArg(config)>>
    /\ isEditingConfig' = FALSE
    /\ calls' = SubmitCalls
    /\ submitted' = <<config>>
    /\ UNCHANGED <<mounted, config, editsLeft>>

\* Variant: edit mode is left before the form is validated.
handleSubmit_leavesEditFirst ==
    /\ mounted
    /\ errors' = newErrors(config)
    /\ isEditingConfig' = FALSE
    /\ IF validateForm(config)
       THEN /\ storage' = JSONstringify(config)
            /\ amplify' = <<CognitoArg(config)>>
            /\ calls' = SubmitCalls
            /\ submitted' = <<config>>
       ELSE /\ calls' = <<"setEditingConfig(false)">>
            /\ UNCHANGED <<storage, amplify, submitted>>
    /\ UNCHANGED <<mounted, config, editsLeft>>

handleSubmit ==
    /\ mounted
    /\ errors' = newErrors(config)
    /\ IF validateForm(config)
       THEN /\ storage' = JSONstringify(config)
            /\ amplify' = <<CognitoArg(config)>>
            /\ isEditingConfig' = FALSE
            /\ calls' = SubmitCalls
            /\ submitted' = <<config>>
       ELSE /\ calls' = <<>>
            /\ UNCHANGED <<storage, amplify, isEditingConfig, submitted>>
    /\ UNCHANGED <<mounted, config, editsLeft>>

\* Variant: cancel saves the form as it is before leaving edit mode.
Cancel_saves ==
    /\ mounted
    /\ isEditingConfig' = FALSE
    /\ storage' = JSONstringify(config)
    /\ calls' = <<"localStorage.setItem", "setEditingConfig(false)">>
    /\ UNCHANGED <<mounted, config, errors, amplify, submitted, editsLeft>>

\* The cancel Button's onClick.
Cancel ==
    /\ mounted
    /\ isEditingConfig' = FALSE
    /\ calls' = <<"setEditingConfig(false)">>
    /\ UNCHANGED <<mounted, config, errors, storage, amplify, submitted, editsLeft>>

Next ==
    \/ \E editing \in BOOLEAN : Mount(editing)
    \/ \E editing \in BOOLEAN : Rerender(editing)
    \/ Unmount
    \/ \E input \in TextInputs :
          \E value \in Typed(input[1], input[2]) :
             InputChange(input[1], input[2], value)
    \/ \E option \in {"bedrock", "strands"} : SelectAgentType(option)
    \/ handleSubmit
    \/ Cancel

Spec == Init /\ [][Next]_vars

\* The same component in a browser whose storage holds no configuration.
InitFresh == InitWith(NoItem, MaxSetupEdits)

SpecFresh == InitFresh /\ [][Next]_vars

----------------------------------------------------------------------------
(* The form in any state the inputs can bring it to, for the validation    *)
(* rules: whitespace-only values, near-miss ARNs, both agent types.        *)

CognitoForms ==
    [userPoolId : {"", "pool"}, userPoolClientId : {"", "client"},
     region : {"", "  ", "us-east-1"}, identityPoolId : {"", "idpool"}]

BedrockForms ==
    [agentName : {"", "MyAgent"}, agentId : {"", "  ", "UF1W5WKVYI"},
     agentAliasId : {"", "TSTALIASID"}, region : {"", "us-east-1"}]

\* The region beside a matching ARN is the derived one: the effect has run
\* and the input is disabled.
StrandsForms ==
    {s \in [enabled : BOOLEAN,
            lambdaArn : {"", "  ", "not-an-arn", ArnUpper, ArnWest},
            agentName : {"Strandsエージェント", "Weather"},
            region : {"", "  ", "eu-west-1", "us-west-2"}] :
        extractRegionFromLambdaArn(s.lambdaArn) # ""
            => s.region = extractRegionFromLambdaArn(s.lambdaArn)}

InitForm ==
    /\ mounted = TRUE
    /\ isEditingConfig = TRUE
    /\ \E c \in CognitoForms, b \in BedrockForms, s \in StrandsForms :
          config = [cognito |-> c, bedrock |-> b, strands |-> s]
    /\ errors = NoErrors
    /\ storage = NoItem
    /\ amplify = NotConfigured
    /\ calls = <<>>
    /\ submitted = NoSubmit
    /\ editsLeft = 0

NextForm == handleSubmit

SpecForm == InitForm /\ [][NextForm]_vars

----------------------------------------------------------------------------
(* Properties.                                                              *)

Count(seq, x) == Cardinality({i \in DOMAIN seq : seq[i] = x})

AnyInputChange ==
    \E input \in TextInputs :
       \E value \in Typed(input[1], input[2]) :
          InputChange(input[1], input[2], value)

AnySelect == \E option \in {"bedrock", "strands"} : SelectAgentType(option)

\* C1: a submit of a configuration that validates writes that whole
\* configuration to the storage key and calls onConfigSet exactly once; a
\* later load in edit mode makes the in-memory configuration equal to the
\* one submitted.
C1_SubmitRoundTrip ==
    [][ /\ (handleSubmit /\ validateForm(config)) =>
              /\ storage' # NoItem
              /\ JSONparse(storage') = config
              /\ \A s \in Range(Sections) : \A f \in Range(Fields(s)) :
                    \E i \in DOMAIN storage' : storage'[i] = <<s, f, config[s][f]>>
              /\ Count(calls', "onConfigSet") = 1
        /\ ((Mount(TRUE) \/ Rerender(TRUE)) /\ submitted # NoSubmit) =>
              <<config'>> = submitted ]_vars

\* C1 witness: a Strands configuration was saved and then loaded back in
\* edit mode.
C1_Witness ==
    /\ mounted /\ isEditingConfig /\ calls = <<>>
    /\ submitted # NoSubmit
    /\ <<config>> = submitted
    /\ config.strands.enabled
    /\ config.strands.region = "us-west-2"

\* The inputs validation requires, by agent type.
RequiredInputs(cfg) ==
    {<<"cognito", f>> : f \in Range(Fields("cognito"))}
    \cup (IF cfg.strands.enabled
          THEN {<<"strands", "lambdaArn">>, <<"strands", "region">>}
          ELSE {<<"bedrock", "agentId">>, <<"bedrock", "agentAliasId">>,
                <<"bedrock", "region">>})

Offending(cfg) == {i \in RequiredInputs(cfg) : Blank(cfg[i[1]][i[2]])}

\* C2: a submit that fails validation leaves storage, the applied SDK
\* configuration, the edit-mode flag and the in-memory configuration as they
\* were, calls nothing, and leaves a message for every offending field.
C2_FailedSubmitNoEffects ==
    [][ (handleSubmit /\ ~validateForm(config)) =>
           /\ storage' = storage
           /\ amplify' = amplify
           /\ isEditingConfig' = isEditingConfig
           /\ config' = config
           /\ calls' = <<>>
           /\ submitted' = submitted
           /\ DOMAIN errors' # {}
           /\ Offending(config) # {}
           /\ \A i \in Offending(config) :
                 /\ ErrorKey(i[1], i[2]) \in DOMAIN errors'
                 /\ errors'[ErrorKey(i[1], i[2])] # "" ]_vars

\* C2 witness: a failed submit of a stored configuration edited into an
\* invalid one (Strands selected, no ARN), in edit mode.
C2_Witness ==
    /\ mounted /\ isEditingConfig /\ calls = <<>>
    /\ storage # NoItem
    /\ amplify = NotConfigured
    /\ config.strands.enabled
    /\ DOMAIN errors = {"lambdaArn", "strandsRegion"}
    /\ errors["lambdaArn"] = Required

IdentityInputs == {<<"cognito", f>> : f \in Range(Fields("cognito"))}

PrimaryRequired ==
    {<<"bedrock", "agentId">>, <<"bedrock", "agentAliasId">>,
     <<"bedrock", "region">>}

\* C4 as stated: with the alternate agent disabled and the four identity
\* fields and the primary agent's three required fields non-empty, a submit
\* validates with no errors.
C4_NonEmptyValidates ==
    [][ ( /\ handleSubmit
          /\ ~config.strands.enabled
          /\ \A i \in IdentityInputs \cup PrimaryRequired : config[i[1]][i[2]] # "" )
        => (errors' = NoErrors /\ calls' = SubmitCalls) ]_vars

\* C4 amended: with the alternate agent disabled and those seven fields
\* holding more than whitespace, a submit validates with no errors.
C4_NonBlankValidates ==
    [][ ( /\ handleSubmit
          /\ ~config.strands.enabled
          /\ \A i \in IdentityInputs \cup PrimaryRequired :
                Trim(Chars(config[i[1]][i[2]])) # <<>> )
        => (errors' = NoErrors /\ calls' = SubmitCalls) ]_vars

\* C4 witness: a Bedrock form without agent name, submitted and saved.
C4_Witness ==
    /\ calls = SubmitCalls
    /\ errors = NoErrors
    /\ ~config.strands.enabled
    /\ config.bedrock.agentName = ""
    /\ config.strands.lambdaArn = "  "

PrimaryKeys == {"agentName", "agentId", "agentAliasId", "bedrockRegion"}
AlternateKeys == {"strandsAgentName", "lambdaArn", "strandsRegion"}

\* C5 as stated: with the alternate agent enabled, functionArn and region get
\* an error entry exactly when empty and no primary-agent field gets one;
\* with it disabled, no alternate-agent field gets one.
C5_ErrorsWhenEmpty ==
    [][ handleSubmit =>
          IF config.strands.enabled
          THEN /\ ("lambdaArn" \in DOMAIN errors') <=> (config.strands.lambdaArn = "")
               /\ ("strandsRegion" \in DOMAIN errors') <=> (config.strands.region = "")
               /\ DOMAIN errors' \cap PrimaryKeys = {}
          ELSE DOMAIN errors' \cap AlternateKeys = {} ]_vars

\* C5 amended: the same, with "empty" read as empty or whitespace-only.
C5_ErrorsWhenBlank ==
    [][ handleSubmit =>
          IF config.strands.enabled
          THEN /\ ("lambdaArn" \in DOMAIN errors')
                     <=> (Trim(Chars(config.strands.lambdaArn)) = <<>>)
               /\ ("strandsRegion" \in DOMAIN errors')
                     <=> (Trim(Chars(config.strands.region)) = <<>>)
               /\ DOMAIN errors' \cap PrimaryKeys = {}
          ELSE DOMAIN errors' \cap AlternateKeys = {} ]_vars

\* C5 witness: a Strands form with no ARN and no region, and the primary
\* agent's fields empty, after a submit: the two Strands errors only.
C5_Witness ==
    /\ config.strands.enabled
    /\ config.strands.lambdaArn = ""
    /\ config.bedrock.agentId = ""
    /\ config.bedrock.region = ""
    /\ errors = [k \in {"lambdaArn", "strandsRegion"} |-> Required]

\* The ARN has the form arn:aws:lambda:REGION:ACCOUNT:function:NAME.
MatchesArnPattern(arn) == ArnMatch(Chars(arn)) # <<>>

RegionToken(arn) == Str(ArnMatch(Chars(arn)))

DerivedRegionHolds(cfg) ==
    (cfg.strands.enabled /\ MatchesArnPattern(cfg.strands.lambdaArn)) =>
        /\ cfg.strands.region = RegionToken(cfg.strands.lambdaArn)
        /\ RegionInputDisabled(cfg)
        /\ cfg.strands.lambdaArn = ArnWest => cfg.strands.region = "us-west-2"

\* C6: whenever the alternate agent is enabled and the function ARN matches
\* the pattern, the alternate-agent region is the ARN's region token and the
\* region input is disabled, after every change, selection and load; so is
\* the region of every configuration saved.
C6_DerivedRegion ==
    /\ mounted => DerivedRegionHolds(config)
    /\ submitted # NoSubmit => DerivedRegionHolds(submitted[1])
    /\ storage # NoItem => DerivedRegionHolds(ParsedConfig(storage))

\* C6 witness: Strands selected, one matching ARN typed and then another:
\* the region follows the second.
C6_Witness ==
    /\ mounted /\ editsLeft = 0
    /\ config.strands.enabled
    /\ config.strands.lambdaArn = ArnEast
    /\ config.strands.region = "us-east-1"
    /\ "lambdaArn" \in DOMAIN errors
    /\ "strandsRegion" \notin DOMAIN errors

\* C7: a change of the function ARN to a value that does not match the
\* pattern leaves the alternate-agent region as it was and the region input
\* enabled.
C7_NoMatchKeepsRegion ==
    [][ ( /\ \E value \in Typed("strands", "lambdaArn") :
                InputChange("strands", "lambdaArn", value)
          /\ ~MatchesArnPattern(config'.strands.lambdaArn) )
        => /\ config'.strands.region = config.strands.region
           /\ ~RegionInputDisabled(config') ]_vars

\* C7 witness: not-an-arn typed over a matching ARN: the region derived from
\* the earlier ARN is still there.
C7_Witness ==
    /\ mounted
    /\ config.strands.enabled
    /\ config.strands.lambdaArn = "not-an-arn"
    /\ config.strands.region = "us-west-2"
    /\ ~RegionInputDisabled(config)

HasStrands(text) == \E i \in DOMAIN text : text[i][1] = "strands"

LegacyLoaded ==
    [cognito |-> [userPoolId |-> "pool", userPoolClientId |-> "client",
                  region |-> "us-east-1", identityPoolId |-> "idpool"],
     bedrock |-> [agentName |-> "MyAgent", agentId |-> "UF1W5WKVYI",
                  agentAliasId |-> "TSTALIASID", region |-> "us-east-1"],
     strands |-> [enabled |-> FALSE, lambdaArn |-> "",
                  agentName |-> "Strandsエージェント", region |-> ""]]

\* C8: a load of a stored configuration without strands section gives the
\* stored cognito and bedrock sections and the default strands section
\* (disabled, no ARN, no region, the default name); one with a strands
\* section is loaded as stored; with nothing stored a mount leaves the
\* defaults.  (In edit mode the loaded configuration becomes the in-memory
\* one; otherwise its cognito section is what is applied to the SDK.)
C8_LoadBackfill ==
    [][ /\ ((Mount(TRUE) \/ Rerender(TRUE)) /\ storage # NoItem) =>
              IF HasStrands(storage)
              THEN JSONstringify(config') = storage
              ELSE storage = LegacyStored /\ config' = LegacyLoaded
        /\ ((Mount(FALSE) \/ Rerender(FALSE)) /\ storage = LegacyStored) =>
              amplify' = <<LegacyLoaded.cognito>>
        /\ (storage = NoItem /\ \E e \in BOOLEAN : Mount(e)) =>
              config' = DefaultConfig /\ amplify' = amplify ]_vars

\* C8 witness: the legacy item loaded in edit mode.
C8_Witness ==
    /\ mounted /\ isEditingConfig
    /\ storage = LegacyStored
    /\ config = LegacyLoaded
    /\ amplify = NotConfigured
    /\ editsLeft = MaxEdits

\* C9: a mount with a stored configuration and isEditingConfig false applies
\* the stored configuration to the SDK and calls onConfigSet; with
\* isEditingConfig true it sets the in-memory configuration from storage,
\* applies nothing and does not call onConfigSet.
C9_MountAppliesAndSignals ==
    [][ /\ (Mount(FALSE) /\ storage # NoItem) =>
              /\ amplify' = <<CognitoArg(ParsedConfig(storage))>>
              /\ Count(calls', "Amplify.configure") = 1
              /\ Count(calls', "onConfigSet") = 1
        /\ (Mount(TRUE) /\ storage # NoItem) =>
              /\ config' = ParsedConfig(storage)
              /\ amplify' = amplify
              /\ calls' = <<>> ]_vars

\* C10: from empty storage, the stored configuration always validates, and
\* what was last applied to the SDK is the stored cognito section, its four
\* fields non-blank.
C10_StoredIsValid ==
    /\ storage # NoItem =>
          /\ validateForm(ParsedConfig(storage))
          /\ Offending(ParsedConfig(storage)) = {}
    /\ amplify # NotConfigured =>
          /\ storage # NoItem
          /\ amplify = <<CognitoArg(ParsedConfig(storage))>>
          /\ \A f \in DOMAIN amplify[1] : Trim(Chars(amplify[1][f])) # <<>>

\* C10 witness: after first-time setup and save, a mount outside edit mode
\* applied the stored configuration.
C10_Witness ==
    /\ mounted /\ ~isEditingConfig
    /\ calls = <<"Amplify.configure">>
    /\ storage # NoItem
    /\ config = DefaultConfig
    /\ amplify # NotConfigured

====
